---- MODULE Spec2Model ----
(***************************************************************************)
(* Model of the realtime text-to-speech pacing bridge (DatabaseBridge):    *)
(* the change watcher (push channel + poll worker), the ingestion path     *)
(* processNewData, the paragraph segmenter, and the pacing queue with its  *)
(* drain loop processQueueLoop, gated by the voice session's status.       *)
(*                                                                         *)
(* JavaScript runs one task at a time: every action below is one task      *)
(* (an event handler, a timer expiry, a promise continuation or a React    *)
(* effect run) executed to its next suspension point.                      *)
(***************************************************************************)
EXTENDS Integers, Sequences, FiniteSets, TLC

(***************************************************************************)
(* Bounds.                                                                 *)
(***************************************************************************)
MaxPublish == 2       \* rows written to the source store in one run
MaxInflight == 1      \* fetchLatest queries awaiting their response
MaxStyleChanges == 1  \* changes of the style setting in one run
MaxTextLen == 4       \* characters of a text over Alphabet given to segmentText
MaxSentences == 4     \* sentences of a text of whole sentences given to segmentText
MaxWords == 40        \* words of a segment whose delay is computed

(***************************************************************************)
(* Strings are sequences of one-character strings.  A value that may be    *)
(* null is a sequence of length at most one: <<>> is null, <<s>> is s.     *)
(***************************************************************************)
Null == <<>>
Str(s) == <<s>>

MARKER == <<"(","c","l","e","a","r","s"," ","t","h","r","o","a","t",")">>
BREATHY_PREFIX == <<"(","s","o","f","t"," ","i","n","h","a","l","e",")"," ">>
BREATHY_SUFFIX == <<" ",".",".","."," ","(","p","a","u","s","e",")">>
DRAMATIC_PREFIX == <<"(","s","l","o","w","l","y",")"," ">>
DRAMATIC_SUFFIX == <<" ",".",".","."," ","(","l","o","n","g"," ","p","a","u","s","e",")">>

Styles == {"neutral", "breathy", "dramatic", "natural"}
DefaultStyle == "neutral"

\* What String.prototype.trim() removes (of the characters used here).
IsSpace(c) == c \in {" ", "\n", "\r", "\t"}

RECURSIVE TrimStart(_)
TrimStart(s) ==
  IF s # <<>> /\ IsSpace(Head(s)) THEN TrimStart(Tail(s)) ELSE s

RECURSIVE TrimEnd(_)
TrimEnd(s) ==
  IF s # <<>> /\ IsSpace(s[Len(s)]) THEN TrimEnd(SubSeq(s, 1, Len(s) - 1)) ELSE s

Trim(s) == TrimEnd(TrimStart(s))

\* Index of the first character at or after i that is not "\n".
RECURSIVE SkipNewlines(_, _)
SkipNewlines(t, i) ==
  IF i <= Len(t) /\ t[i] = "\n" THEN SkipNewlines(t, i + 1) ELSE i

\* Length of the match of /\r?\n+/ starting exactly at i (0: no match).
SeparatorAt(t, i) ==
  IF t[i] = "\n" THEN SkipNewlines(t, i) - i
  ELSE IF t[i] = "\r" /\ i < Len(t) /\ t[i + 1] = "\n" THEN SkipNewlines(t, i + 1) - i
  ELSE 0

\* text.split(/\r?\n+/): the pieces between successive separator matches.
RECURSIVE SplitFrom(_, _, _)
SplitFrom(t, i, cur) ==
  IF i > Len(t) THEN <<cur>>
  ELSE IF SeparatorAt(t, i) > 0
       THEN <<cur>> \o SplitFrom(t, i + SeparatorAt(t, i), <<>>)
       ELSE SplitFrom(t, i + 1, Append(cur, t[i]))

RECURSIVE MapTrim(_)
MapTrim(ps) ==
  IF ps = <<>> THEN <<>> ELSE <<Trim(Head(ps))>> \o MapTrim(Tail(ps))

NonEmpty(t) == Len(t) > 0

RECURSIVE FilterNonEmpty(_)
FilterNonEmpty(ps) ==
  IF ps = <<>> THEN <<>>
  ELSE IF NonEmpty(Head(ps)) THEN <<Head(ps)>> \o FilterNonEmpty(Tail(ps))
  ELSE FilterNonEmpty(Tail(ps))

\* segmentText(text) for a non-null string.
segmentText(text) ==
  IF text = <<>> THEN <<>>
  ELSE FilterNonEmpty(MapTrim(SplitFrom(text, 1, <<>>)))

(***************************************************************************)
(* segmentText of the sentence-grouping bridge: the sentence split and the *)
(* chunking heuristics.                                                    *)
(***************************************************************************)
IsTerminator(c) == c \in {".", "!", "?"}
IsQuote(c) == c \in {"\"", "'"}

\* First index at or after i whose character is a terminator (Len(t) + 1 if
\* there is none): the end of a greedy [^.!?]+ .
SkipNonTerminators(t, i) ==
  LET stops == {j \in i..Len(t) : IsTerminator(t[j])}
  IN IF stops = {} THEN Len(t) + 1
     ELSE CHOOSE j \in stops : \A k \in stops : j <= k

\* First index at or after i whose character is not a terminator: the end of
\* a greedy [.!?]+ .
SkipTerminators(t, i) ==
  LET stops == {j \in i..Len(t) : ~IsTerminator(t[j])}
  IN IF stops = {} THEN Len(t) + 1
     ELSE CHOOSE j \in stops : \A k \in stops : j <= k

\* The matches of /[^.!?]+[.!?]+["']?|[^.!?]+$/g from index i on.  At a
\* terminator neither alternative matches and the scan moves one character
\* on; elsewhere the first alternative matches when a terminator follows the
\* run of non-terminators, and the second when the run reaches the end.
RECURSIVE MatchFrom(_, _)
MatchFrom(t, i) ==
  IF i > Len(t) THEN <<>>
  ELSE IF IsTerminator(t[i]) THEN MatchFrom(t, i + 1)
  ELSE LET j == SkipNonTerminators(t, i)
       IN IF j > Len(t) THEN <<SubSeq(t, i, Len(t))>>
          ELSE LET k == SkipTerminators(t, j)
                   e == IF k <= Len(t) /\ IsQuote(t[k]) THEN k + 1 ELSE k
               IN <<SubSeq(t, i, e - 1)>> \o MatchFrom(t, e)

\* text.match(/[^.!?]+[.!?]+["']?|[^.!?]+$/g) || [text]
RegexSentences(t) ==
  LET m == MatchFrom(t, 1) IN IF m = <<>> THEN <<t>> ELSE m

\* Where Intl.Segmenter('en', {granularity: 'sentence'}) can end a sentence
\* after t[i]: after a line break, and after a terminator, quote or space
\* that no space follows; never inside a word.
BreakAllowed(t, i) ==
  \/ t[i] = "\n"
  \/ /\ IsTerminator(t[i]) \/ IsQuote(t[i]) \/ IsSpace(t[i])
     /\ ~IsSpace(t[i + 1])

\* The pieces of t cut after the indexes in cuts, from index i on.
RECURSIVE PiecesFrom(_, _, _)
PiecesFrom(t, i, cuts) ==
  IF i > Len(t) THEN <<>>
  ELSE LET after == {c \in cuts : c >= i}
       IN IF after = {} THEN <<SubSeq(t, i, Len(t))>>
          ELSE LET c == CHOOSE x \in after : \A y \in after : x <= y
               IN <<SubSeq(t, i, c)>> \o PiecesFrom(t, c + 1, cuts)

\* The segmentations Intl.Segmenter can return: the segments cover the text
\* in order, with no gap and no overlap.
SegmenterSentences(t) ==
  {PiecesFrom(t, 1, cuts) :
     cuts \in SUBSET {i \in 1..(Len(t) - 1) : BreakAllowed(t, i)}}

\* A faulty Flush: two sentences of 150 characters close the chunk.
Flush_AtLeast150(count, length) ==
  (count >= 2 /\ length >= 150) \/ count >= 3 \/ length > 250

\* The chunking heuristics: whether a chunk of `count` sentences and `length`
\* characters is closed.
Flush(count, length) ==
  (count >= 2 /\ length > 150) \/ count >= 3 \/ length > 250

\* A faulty TrailingChunk: what is left at the end of input is dropped.
TrailingChunk_Dropped(chunk) == <<>>

\* `if (currentChunk.trim()) chunks.push(currentChunk.trim())`: what the end
\* of input adds to chunks.
TrailingChunk(chunk) == IF Trim(chunk) # <<>> THEN <<Trim(chunk)>> ELSE <<>>

\* The texts given to segmentText: every text over Alphabet of up to
\* MaxTextLen characters, and every text of up to MaxSentences sentences
\* "aa...a." with the lengths in SentenceLengths, separated by one space.
Alphabet == {"a", ".", "\"", " ", "\n"}
ShortTexts == UNION {[1..n -> Alphabet] : n \in 0..MaxTextLen}

SentenceLengths == {2, 74, 75, 250, 251}
Sentence(n) == [i \in 1..n |-> IF i = n THEN "." ELSE "a"]

RECURSIVE JoinSentences(_)
JoinSentences(lengths) ==
  IF Len(lengths) = 1 THEN Sentence(lengths[1])
  ELSE Sentence(lengths[1]) \o <<" ">> \o JoinSentences(Tail(lengths))

LongTexts ==
  {JoinSentences(lengths) :
     lengths \in UNION {[1..k -> SentenceLengths] : k \in 1..MaxSentences}}

SegTexts == ShortTexts \cup LongTexts

(***************************************************************************)
(* The source store's records.                                             *)
(***************************************************************************)
NoId == 0
Ids == {1, 2}

\* The row values the store is given: a one-paragraph text, a two-paragraph
\* text whose second paragraph reads "(clears throat)", a null text, an
\* empty text and a whitespace-only text.  The state names a row value by its
\* index in this table.
Transcripts ==
  << [id |-> 1, full_transcript_text |-> Str(<<"a">>)],
     [id |-> 2, full_transcript_text |-> Str(<<"b", "\n", "\n", " ">> \o MARKER \o <<"\r", "\n">>)],
     [id |-> 1, full_transcript_text |-> Null],
     [id |-> 2, full_transcript_text |-> Str(<<>>)],
     [id |-> 1, full_transcript_text |-> Str(<<" ">>)] >>
\* The rows whose text is not empty and is whitespace only.
BlankRows ==
  {row \in DOMAIN Transcripts :
     LET source == Transcripts[row].full_transcript_text
     IN source # Null /\ source[1] # <<>> /\ Trim(source[1]) = <<>>}
\* The other rows.
Rows == DOMAIN Transcripts \ BlankRows
\* No row: the table is empty, or the task was given no row.
NoRow == 0

\* segmentText, tabulated over the non-null texts of the rows.
SourceStrings ==
  {Transcripts[row].full_transcript_text[1] :
     row \in {r \in DOMAIN Transcripts : Transcripts[r].full_transcript_text # Null}}
SegmentsOf == [text \in SourceStrings |-> segmentText(text)]


(***************************************************************************)
(* State.                                                                  *)
(***************************************************************************)
VARIABLES
  status,              \* client.status of the voice session
  connected,           \* the value of `connected` the ingestion effect last ran with
  voiceStyleRef,       \* voiceStyleRef.current
  lastProcessedIdRef,  \* lastProcessedIdRef.current (NoId: null)
  paragraphCountRef,   \* paragraphCountRef.current
  queueRef,            \* queueRef.current
  isProcessingRef,     \* isProcessingRef.current
  suspended,           \* processQueueLoop instances awaiting their setTimeout
  latest,              \* the source store's most recently updated row
  channel,             \* change notifications not yet delivered to the subscription
  inflight,            \* responses of fetchLatest queries not yet delivered
  log,                 \* the Transcript Log: the rows whose text addTurn appended
  sent,                \* the client.send calls that returned, in order
  enq,                 \* history: every item ever pushed on the queue
  published,           \* history: number of rows written to the store
  styleChanges,        \* history: number of changes of the style setting
  op,                  \* history: the task that produced this state
  segText,             \* segmentText: the argument `text` of the call under way
  segPc,               \* segmentText: position of the call under way
  sentences,           \* segmentText: sentences
  sentenceIndex,       \* segmentText: index of the for loop's next sentence
  currentChunk,        \* segmentText: currentChunk
  sentenceCount,       \* segmentText: sentenceCount
  chunks,              \* segmentText: chunks (the value returned, when done)
  chunkSizes,          \* history: sentenceCount at each chunks.push
  splitBy,             \* history: what split the text of the call under way
  paceText,            \* processQueueLoop: rawText of the segment just sent
  paceStyle,           \* processQueueLoop: style, read when the segment was taken
  paceVariant,         \* which processQueueLoop computes the delay
  paceRandom,          \* the value of Math.random() * 1000, in whole ms
  pacePc,              \* position in the delay calculation
  wordCount,           \* processQueueLoop: wordCount
  readTime,            \* processQueueLoop: readTime, in whole ms
  totalDelay           \* processQueueLoop: totalDelay, in whole ms

\* The variables of a segmentText call followed step by step.
segVars == <<segText, segPc, sentences, sentenceIndex, currentChunk,
             sentenceCount, chunks, chunkSizes, splitBy>>

\* The variables of the bridge.
bridgeVars == <<status, connected, voiceStyleRef, lastProcessedIdRef,
                paragraphCountRef, queueRef, isProcessingRef, suspended, latest,
                channel, inflight, log, sent, enq, published, styleChanges, op>>

\* The variables of one inter-segment delay calculation.
delayVars == <<paceText, paceStyle, paceVariant, paceRandom, pacePc, wordCount,
               readTime, totalDelay>>

vars == <<bridgeVars, segVars, delayVars>>

NoOp == [name |-> "init", data |-> NoRow, outcome |-> "none", exit |-> "none"]
EnvOp == [name |-> "env", data |-> NoRow, outcome |-> "none", exit |-> "none"]

\* The bridge after mount.
InitBridge ==
  /\ status = "disconnected"
  /\ connected = FALSE
  /\ voiceStyleRef = DefaultStyle
  /\ lastProcessedIdRef = NoId
  /\ paragraphCountRef = 0
  /\ queueRef = <<>>
  /\ isProcessingRef = FALSE
  /\ suspended = 0
  /\ latest = NoRow
  /\ channel = <<>>
  /\ inflight = <<>>
  /\ log = <<>>
  /\ sent = <<>>
  /\ enq = <<>>
  /\ published = 0
  /\ styleChanges = 0
  /\ op = NoOp

\* No segmentText call is followed.
SegIdle ==
  /\ segText = <<>>
  /\ segPc = "idle"
  /\ sentences = <<>>
  /\ sentenceIndex = 1
  /\ currentChunk = <<>>
  /\ sentenceCount = 0
  /\ chunks = <<>>
  /\ chunkSizes = <<>>
  /\ splitBy = "none"

\* No delay calculation is followed.
DelayIdle ==
  /\ paceText = <<>>
  /\ paceStyle = DefaultStyle
  /\ paceVariant = "none"
  /\ paceRandom = 0
  /\ pacePc = "idle"
  /\ wordCount = 0
  /\ readTime = 0
  /\ totalDelay = 0

Init == InitBridge /\ SegIdle /\ DelayIdle

(***************************************************************************)
(* processQueueLoop.                                                       *)
(***************************************************************************)
\* A faulty GateOpen: the gate is not consulted.
GateOpen_Always(st) == TRUE

\* The session gate: client.status === 'connected'.
GateOpen(st) == st = "connected"

\* The stage directions wrapped around a queue item.
ScriptedText(rawText, style) ==
  IF rawText = MARKER THEN rawText
  ELSE IF style = "breathy" THEN BREATHY_PREFIX \o rawText \o BREATHY_SUFFIX
  ELSE IF style = "dramatic" THEN DRAMATIC_PREFIX \o rawText \o DRAMATIC_SUFFIX
  ELSE rawText

\* !scriptedText || !scriptedText.trim()
IsBlank(scriptedText) == scriptedText = <<>> \/ Trim(scriptedText) = <<>>

\* A faulty Shift: the item just sent stays at the head.
Shift_KeepHead(q) == q

\* queueRef.current.shift()
Shift(q) == Tail(q)

\* A faulty GateHalt: the halt drops what is pending.
GateHalt_Clear(q) == [queue |-> <<>>, send |-> <<>>, exit |-> "gate"]

\* The loop's exit on a closed gate: `isProcessingRef.current = false; return`,
\* with the queue left as it is.
GateHalt(q) == [queue |-> q, send |-> <<>>, exit |-> "gate"]

\* The while loop from its condition up to the loop's next suspension or
\* exit: the remaining queue, the send that returned (if any), and how the
\* run ended.  fails: client.send throws when called in this task.
RECURSIVE WhileLoop(_, _, _, _)
WhileLoop(q, st, style, fails) ==
  IF Len(q) = 0 THEN [queue |-> q, send |-> <<>>, exit |-> "empty"]
  ELSE IF ~GateOpen(st) THEN GateHalt(q)
  ELSE LET rawText == q[1]
           scriptedText == ScriptedText(rawText, style)
       IN IF IsBlank(scriptedText) THEN WhileLoop(Shift(q), st, style, fails)
          ELSE IF fails THEN [queue |-> q, send |-> <<>>, exit |-> "throw"]
          ELSE [queue |-> Shift(q),
                send |-> <<[text |-> scriptedText, raw |-> rawText]>>,
                exit |-> "await"]

\* A faulty FlagAfter: the exit on an empty queue leaves the flag as it is.
FlagAfter_KeptOnEmpty(exit, flag) ==
  IF exit \in {"busy", "await", "empty"} THEN flag ELSE FALSE

\* A faulty FlagAfter: no `finally`, a throw leaves the flag as it is.
FlagAfter_NoFinally(exit, flag) ==
  IF exit \in {"busy", "await", "throw"} THEN flag ELSE FALSE

\* isProcessingRef.current once a run of the loop that ended with `exit`
\* has returned to the scheduler (flag: its value before the run).
FlagAfter(exit, flag) ==
  IF exit = "busy" THEN flag
  ELSE IF exit = "await" THEN flag
  ELSE FALSE

\* A call of processQueueLoop() with queue q and isProcessingRef = flag.
ProcessQueueLoop(q, flag, fails) ==
  IF flag THEN [queue |-> q, send |-> <<>>, exit |-> "busy", flag |-> flag, started |-> 0]
  ELSE LET r == WhileLoop(q, status, voiceStyleRef, fails)
       IN [queue |-> r.queue, send |-> r.send, exit |-> r.exit,
           flag |-> FlagAfter(r.exit, TRUE),
           started |-> IF r.exit = "await" THEN 1 ELSE 0]

\* The delay of one suspended loop instance expires.
LoopWake(fails) ==
  /\ suspended > 0
  /\ LET r == WhileLoop(queueRef, status, voiceStyleRef, fails)
     IN /\ queueRef' = r.queue
        /\ sent' = sent \o r.send
        /\ isProcessingRef' = FlagAfter(r.exit, isProcessingRef)
        /\ suspended' = IF r.exit = "await" THEN suspended ELSE suspended - 1
        /\ op' = [name |-> "wake", data |-> NoRow, outcome |-> "none",
                  exit |-> r.exit]
  /\ UNCHANGED <<status, connected, voiceStyleRef, lastProcessedIdRef,
                 paragraphCountRef, latest, channel, inflight, log, enq, published,
                 styleChanges>>
  /\ UNCHANGED <<segVars, delayVars>>


(***************************************************************************)
(* processNewData.                                                         *)
(***************************************************************************)
\* A faulty Falsy: only null is rejected.
Falsy_NullOnly(source) == source = Null

\* !source, for the nullable string data.full_transcript_text.
Falsy(source) == source = Null \/ source[1] = <<>>

\* A faulty IsDuplicate: no comparison with the last processed id.
IsDuplicate_Never(lastId, id) == FALSE

\* lastProcessedIdRef.current === data.id
IsDuplicate(lastId, id) == lastId = id

\* A faulty InjectMarker: the counter is tested before it is incremented.
InjectMarker_BeforeIncrement(count) == count - 1 > 0 /\ (count - 1) % 3 = 0

\* paragraphCountRef.current > 0 && paragraphCountRef.current % 3 === 0
InjectMarker(count) == count > 0 /\ count % 3 = 0

\* The items segments.forEach pushes, starting from paragraph count `count`.
\* `marker` records which pushes are the injected '(clears throat)'.
RECURSIVE Pushed(_, _)
Pushed(segments, count) ==
  IF segments = <<>> THEN <<>>
  ELSE <<[text |-> Head(segments), marker |-> FALSE]>>
       \o (IF InjectMarker(count + 1) THEN <<[text |-> MARKER, marker |-> TRUE]>> ELSE <<>>)
       \o Pushed(Tail(segments), count + 1)

Texts(items) == [i \in 1..Len(items) |-> items[i].text]

\* processNewData(data), called by the watcher trigger `name` with the row
\* value Transcripts[row].
ProcessNewData(name, row, fails) ==
  LET data == Transcripts[row]
      source == data.full_transcript_text
  IN
  IF Falsy(source) THEN
    /\ op' = [name |-> name, data |-> row, outcome |-> "rejected", exit |-> "none"]
    /\ UNCHANGED <<lastProcessedIdRef, log, paragraphCountRef, queueRef,
                   isProcessingRef, suspended, sent, enq>>
  ELSE IF IsDuplicate(lastProcessedIdRef, data.id) THEN
    /\ op' = [name |-> name, data |-> row, outcome |-> "duplicate", exit |-> "none"]
    /\ UNCHANGED <<lastProcessedIdRef, log, paragraphCountRef, queueRef,
                   isProcessingRef, suspended, sent, enq>>
  ELSE
    LET segments == SegmentsOf[source[1]]
        items == Pushed(segments, paragraphCountRef)
    IN /\ lastProcessedIdRef' = data.id
       /\ log' = Append(log, row)
       /\ IF Len(segments) > 0
          THEN LET r == ProcessQueueLoop(queueRef \o Texts(items), isProcessingRef, fails)
               IN /\ paragraphCountRef' = paragraphCountRef + Len(segments)
                  /\ enq' = enq \o items
                  /\ queueRef' = r.queue
                  /\ sent' = sent \o r.send
                  /\ isProcessingRef' = r.flag
                  /\ suspended' = suspended + r.started
                  /\ op' = [name |-> name, data |-> row, outcome |-> "ingested",
                            exit |-> r.exit]
          ELSE /\ op' = [name |-> name, data |-> row, outcome |-> "ingested",
                         exit |-> "none"]
               /\ UNCHANGED <<paragraphCountRef, queueRef, isProcessingRef,
                              suspended, sent, enq>>

(***************************************************************************)
(* The change watcher.                                                     *)
(***************************************************************************)
\* A row is inserted or updated in the source store; a live subscription is
\* notified of it.
Publish(row) ==
  /\ published < MaxPublish
  /\ published' = published + 1
  /\ latest' = row
  /\ channel' = IF connected THEN Append(channel, row) ELSE channel
  /\ op' = EnvOp
  /\ UNCHANGED <<status, connected, voiceStyleRef, lastProcessedIdRef,
                 paragraphCountRef, queueRef, isProcessingRef, suspended,
                 inflight, log, sent, enq, styleChanges>>
  /\ UNCHANGED <<segVars, delayVars>>

\* The subscription's callback receives a change notification.
PushDeliver(fails) ==
  /\ connected
  /\ channel # <<>>
  /\ channel' = Tail(channel)
  /\ ProcessNewData("push", Head(channel), fails)
  /\ UNCHANGED <<status, connected, voiceStyleRef, latest, inflight, published,
                 styleChanges>>
  /\ UNCHANGED <<segVars, delayVars>>

\* The worker's 5 s tick: worker.onmessage calls fetchLatest, whose query
\* reads the most recently updated row.
WorkerTick ==
  /\ connected
  /\ Len(inflight) < MaxInflight
  /\ inflight' = Append(inflight, latest)
  /\ op' = EnvOp
  /\ UNCHANGED <<status, connected, voiceStyleRef, lastProcessedIdRef,
                 paragraphCountRef, queueRef, isProcessingRef, suspended,
                 latest, channel, log, sent, enq, published, styleChanges>>
  /\ UNCHANGED <<segVars, delayVars>>

Remove(seq, i) == SubSeq(seq, 1, i - 1) \o SubSeq(seq, i + 1, Len(seq))

\* A fetchLatest query resolves: `if (!error && data) processNewData(data)`.
\* No row in the store is .single()'s error.
FetchComplete(i, fails) ==
  /\ i \in 1..Len(inflight)
  /\ inflight' = Remove(inflight, i)
  /\ IF inflight[i] = NoRow
     THEN /\ op' = [name |-> "poll", data |-> NoRow, outcome |-> "error",
                    exit |-> "none"]
          /\ UNCHANGED <<lastProcessedIdRef, log, paragraphCountRef, queueRef,
                         isProcessingRef, suspended, sent, enq>>
     ELSE ProcessNewData("poll", inflight[i], fails)
  /\ UNCHANGED <<status, connected, voiceStyleRef, latest, channel, published,
                 styleChanges>>
  /\ UNCHANGED <<segVars, delayVars>>

(***************************************************************************)
(* The session and the effects.                                            *)
(***************************************************************************)
\* The voice session closes: client.status changes; React has not yet
\* re-rendered.
ClientDisconnect ==
  /\ status = "connected"
  /\ connected
  /\ status' = "disconnected"
  /\ op' = EnvOp
  /\ UNCHANGED <<connected, voiceStyleRef, lastProcessedIdRef, paragraphCountRef,
                 queueRef, isProcessingRef, suspended, latest, channel, inflight,
                 log, sent, enq, published, styleChanges>>
  /\ UNCHANGED <<segVars, delayVars>>

\* The voice session opens.
ClientConnect ==
  /\ status = "disconnected"
  /\ ~connected
  /\ status' = "connected"
  /\ op' = EnvOp
  /\ UNCHANGED <<connected, voiceStyleRef, lastProcessedIdRef, paragraphCountRef,
                 queueRef, isProcessingRef, suspended, latest, channel, inflight,
                 log, sent, enq, published, styleChanges>>
  /\ UNCHANGED <<segVars, delayVars>>

\* A faulty PendingAtConnect: the effect does not drain what is pending.
PendingAtConnect_Never(q) == FALSE

\* `if (queueRef.current.length > 0) processQueueLoop()` of the effect body.
PendingAtConnect(q) == Len(q) > 0

\* `connected` changed to false: the previous run's cleanup (worker.terminate,
\* removeChannel), then the effect body up to `if (!connected) return`.
EffectDisconnected ==
  /\ connected
  /\ status # "connected"
  /\ connected' = FALSE
  /\ channel' = <<>>
  /\ isProcessingRef' = FALSE
  /\ op' = [name |-> "effect", data |-> NoRow, outcome |-> "stopped",
            exit |-> "none"]
  /\ UNCHANGED <<status, voiceStyleRef, lastProcessedIdRef, paragraphCountRef,
                 queueRef, suspended, latest, inflight, log, sent, enq,
                 published, styleChanges>>
  /\ UNCHANGED <<segVars, delayVars>>

\* `connected` changed to true: the whole effect body (reset the flag, drain
\* what is pending, start the worker, subscribe, initial fetchLatest).
EffectConnected(fails) ==
  /\ ~connected
  /\ status = "connected"
  /\ Len(inflight) < MaxInflight
  /\ connected' = TRUE
  /\ LET r == IF PendingAtConnect(queueRef)
              THEN ProcessQueueLoop(queueRef, FALSE, fails)
              ELSE [queue |-> queueRef, send |-> <<>>, exit |-> "none",
                    flag |-> FALSE, started |-> 0]
     IN /\ queueRef' = r.queue
        /\ sent' = sent \o r.send
        /\ isProcessingRef' = r.flag
        /\ suspended' = suspended + r.started
        /\ op' = [name |-> "effect", data |-> NoRow, outcome |-> "started",
                  exit |-> r.exit]
  /\ inflight' = Append(inflight, latest)
  /\ UNCHANGED <<status, voiceStyleRef, lastProcessedIdRef, paragraphCountRef,
                 latest, channel, log, enq, published, styleChanges>>
  /\ UNCHANGED <<segVars, delayVars>>

\* The style setting changes; the voiceStyle effect copies it into the ref.
SetVoiceStyle(style) ==
  /\ style # voiceStyleRef
  /\ styleChanges < MaxStyleChanges
  /\ styleChanges' = styleChanges + 1
  /\ voiceStyleRef' = style
  /\ op' = EnvOp
  /\ UNCHANGED <<status, connected, lastProcessedIdRef, paragraphCountRef,
                 queueRef, isProcessingRef, suspended, latest, channel, inflight,
                 log, sent, enq, published>>
  /\ UNCHANGED <<segVars, delayVars>>

(***************************************************************************)
(* One call of segmentText, followed step by step.                         *)
(***************************************************************************)
\* A call of segmentText(text) starts.
SegInit ==
  /\ InitBridge
  /\ DelayIdle
  /\ segText \in SegTexts
  /\ segPc = "start"
  /\ sentences = <<>>
  /\ sentenceIndex = 1
  /\ currentChunk = <<>>
  /\ sentenceCount = 0
  /\ chunks = <<>>
  /\ chunkSizes = <<>>
  /\ splitBy = "none"

\* `if (!text) return []`
ReturnNoText ==
  /\ segPc = "start"
  /\ segText = <<>>
  /\ segPc' = "done"
  /\ UNCHANGED <<segText, sentences, sentenceIndex, currentChunk, sentenceCount,
                 chunks, chunkSizes, splitBy>>
  /\ UNCHANGED <<bridgeVars, delayVars>>

\* Intl.Segmenter is there: sentences are the segments it returns.
SplitWithSegmenter ==
  /\ segPc = "start"
  /\ segText # <<>>
  /\ \E ss \in SegmenterSentences(segText) : sentences' = ss
  /\ segPc' = "loop"
  /\ splitBy' = "segmenter"
  /\ UNCHANGED <<segText, sentenceIndex, currentChunk, sentenceCount, chunks,
                 chunkSizes>>
  /\ UNCHANGED <<bridgeVars, delayVars>>

\* Intl.Segmenter is missing or throws: sentences are the regex's matches.
SplitWithRegex ==
  /\ segPc = "start"
  /\ segText # <<>>
  /\ sentences' = RegexSentences(segText)
  /\ segPc' = "loop"
  /\ splitBy' = "regex"
  /\ UNCHANGED <<segText, sentenceIndex, currentChunk, sentenceCount, chunks,
                 chunkSizes>>
  /\ UNCHANGED <<bridgeVars, delayVars>>

\* One iteration of `for (const sentence of sentences)`.
ForSentence ==
  /\ segPc = "loop"
  /\ sentenceIndex <= Len(sentences)
  /\ sentenceIndex' = sentenceIndex + 1
  /\ LET cleanSentence == Trim(sentences[sentenceIndex])
         appended == (IF currentChunk # <<>> THEN currentChunk \o <<" ">> ELSE <<>>)
                       \o cleanSentence
     IN IF cleanSentence = <<>>
        THEN UNCHANGED <<currentChunk, sentenceCount, chunks, chunkSizes>>
        ELSE IF Flush(sentenceCount + 1, Len(appended))
        THEN /\ chunks' = Append(chunks, Trim(appended))
             /\ chunkSizes' = Append(chunkSizes, sentenceCount + 1)
             /\ currentChunk' = <<>>
             /\ sentenceCount' = 0
        ELSE /\ currentChunk' = appended
             /\ sentenceCount' = sentenceCount + 1
             /\ UNCHANGED <<chunks, chunkSizes>>
  /\ UNCHANGED <<segText, segPc, sentences, splitBy>>
  /\ UNCHANGED <<bridgeVars, delayVars>>

\* The loop is over: the trailing chunk, and `return chunks`.
ReturnChunks ==
  /\ segPc = "loop"
  /\ sentenceIndex > Len(sentences)
  /\ chunks' = chunks \o TrailingChunk(currentChunk)
  /\ chunkSizes' = IF TrailingChunk(currentChunk) # <<>>
                   THEN Append(chunkSizes, sentenceCount) ELSE chunkSizes
  /\ segPc' = "done"
  /\ UNCHANGED <<segText, sentences, sentenceIndex, currentChunk, sentenceCount,
                 splitBy>>
  /\ UNCHANGED <<bridgeVars, delayVars>>

\* The same call made to the paragraph-splitting segmentText, for the texts
\* over Alphabet.
SplitParagraphs ==
  /\ segPc = "start"
  /\ segText \in ShortTexts
  /\ chunks' = segmentText(segText)
  /\ segPc' = "done"
  /\ splitBy' = "paragraphs"
  /\ UNCHANGED <<segText, sentences, sentenceIndex, currentChunk, sentenceCount,
                 chunkSizes>>
  /\ UNCHANGED <<bridgeVars, delayVars>>

SegNext ==
  \/ ReturnNoText
  \/ SplitWithSegmenter
  \/ SplitWithRegex
  \/ ForSentence
  \/ ReturnChunks
  \/ SplitParagraphs

SegSpec == SegInit /\ [][SegNext]_vars

(***************************************************************************)
(* The inter-segment delay of processQueueLoop, computed after a send.      *)
(* Times are whole milliseconds, as setTimeout takes them.                  *)
(***************************************************************************)
\* rawText.split(/\s+/).length: one more than the number of whitespace runs.
WordCount(rawText) ==
  1 + Cardinality({i \in 1..Len(rawText) :
                     IsSpace(rawText[i]) /\ (i = 1 \/ ~IsSpace(rawText[i - 1]))})

\* A text of n one-letter words.
RECURSIVE Words(_)
Words(n) == IF n <= 1 THEN <<"a">> ELSE Words(n - 1) \o <<" ", "a">>

\* The texts whose delay is computed.
PaceTexts == {Words(n) : n \in 1..MaxWords} \cup {MARKER}

\* Values of Math.random() * 1000, which is in [0, 1000).
Randoms == {0, 500, 999}

\* The two loops that compute a delay: the sentence-mode component and the
\* paragraph-mode one that knows the marker.
Variants == {"sentences", "paragraphs"}

Min(a, b) == IF a <= b THEN a ELSE b

\* Sentence mode: bufferBase.
SentenceBufferBase(style) ==
  IF style = "dramatic" THEN 5000 ELSE IF style = "natural" THEN 1000 ELSE 2000

\* Paragraph mode: bufferBase.
ParagraphBufferBase(style) ==
  IF style = "dramatic" THEN 3000 ELSE IF style = "natural" THEN 1000 ELSE 1500

\* Paragraph mode: the delay after the marker.
MarkerDelayMs == 1500

\* Paragraph mode: the cap on the read-time part.
CapMs == 5000

\* Math.random() * 1000 is below this.
MaxJitterMs == 1000

\* A segment was sent and shifted; its delay is about to be computed.
DelayInit ==
  /\ InitBridge
  /\ SegIdle
  /\ paceText \in PaceTexts
  /\ paceStyle \in Styles
  /\ paceVariant \in Variants
  /\ paceRandom \in Randoms
  /\ pacePc = "sent"
  /\ wordCount = 0
  /\ readTime = 0
  /\ totalDelay = 0

\* Sentence mode: totalDelay = readTime + bufferBase + Math.random() * 1000.
SentenceDelay ==
  /\ pacePc = "sent"
  /\ paceVariant = "sentences"
  /\ wordCount' = WordCount(paceText)
  /\ readTime' = (wordCount' * 10000) \div 28
  /\ totalDelay' = readTime' + SentenceBufferBase(paceStyle) + paceRandom
  /\ pacePc' = "wait"
  /\ UNCHANGED <<paceText, paceStyle, paceVariant, paceRandom>>
  /\ UNCHANGED <<bridgeVars, segVars>>

\* Paragraph mode, `rawText === '(clears throat)'`: totalDelay = 1500.
MarkerDelay ==
  /\ pacePc = "sent"
  /\ paceVariant = "paragraphs"
  /\ paceText = MARKER
  /\ totalDelay' = MarkerDelayMs
  /\ pacePc' = "wait"
  /\ UNCHANGED <<paceText, paceStyle, paceVariant, paceRandom, wordCount, readTime>>
  /\ UNCHANGED <<bridgeVars, segVars>>

\* Paragraph mode, any other text:
\* totalDelay = Math.min(5000, readTime * 0.5) + bufferBase.
ParagraphDelay ==
  /\ pacePc = "sent"
  /\ paceVariant = "paragraphs"
  /\ paceText # MARKER
  /\ wordCount' = WordCount(paceText)
  /\ readTime' = (wordCount' * 1000) \div 3
  /\ totalDelay' = Min(CapMs, readTime' \div 2) + ParagraphBufferBase(paceStyle)
  /\ pacePc' = "wait"
  /\ UNCHANGED <<paceText, paceStyle, paceVariant, paceRandom>>
  /\ UNCHANGED <<bridgeVars, segVars>>

DelayNext ==
  \/ SentenceDelay
  \/ MarkerDelay
  \/ ParagraphDelay

DelaySpec == DelayInit /\ [][DelayNext]_vars

\* Whether client.send throws in a task: a choice for a task that can reach
\* the call (the queue it drains is not empty, no other loop holds the flag,
\* the gate is open), and of no effect for any other.
Throws(reachesSend) == IF reachesSend THEN BOOLEAN ELSE {FALSE}

Next ==
  \/ \E row \in Rows : Publish(row)
  \/ \E fails \in Throws(~isProcessingRef /\ GateOpen(status)) : PushDeliver(fails)
  \/ WorkerTick
  \/ \E i \in 1..MaxInflight :
       \E fails \in Throws(~isProcessingRef /\ GateOpen(status)) : FetchComplete(i, fails)
  \/ ClientDisconnect
  \/ ClientConnect
  \/ EffectDisconnected
  \/ \E fails \in Throws(queueRef # <<>>) : EffectConnected(fails)
  \/ \E fails \in Throws(queueRef # <<>> /\ GateOpen(status)) : LoopWake(fails)

Spec == Init /\ [][Next]_vars

\* The bridge while the user also changes the style setting.
NextStyle ==
  \/ Next
  \/ \E style \in Styles : SetVoiceStyle(style)

SpecStyle == Init /\ [][NextStyle]_vars

\* The bridge while whitespace-only texts are also written to the store.
NextBlank ==
  \/ Next
  \/ \E row \in BlankRows : Publish(row)

SpecBlank == Init /\ [][NextBlank]_vars

\* The bridge while client.send never throws.  Timers expire, React runs the
\* effects of a committed render, and a query gets its response.
NextLive ==
  \/ \E row \in Rows : Publish(row)
  \/ PushDeliver(FALSE)
  \/ WorkerTick
  \/ \E i \in 1..MaxInflight : FetchComplete(i, FALSE)
  \/ ClientDisconnect
  \/ ClientConnect
  \/ EffectDisconnected
  \/ EffectConnected(FALSE)
  \/ LoopWake(FALSE)

LiveSpec ==
  /\ Init
  /\ [][NextLive]_vars
  /\ WF_vars(LoopWake(FALSE))
  /\ WF_vars(EffectDisconnected)
  /\ WF_vars(EffectConnected(FALSE))
  /\ WF_vars(\E i \in 1..MaxInflight : FetchComplete(i, FALSE))

TypeOK ==
  /\ status \in {"connected", "disconnected"}
  /\ connected \in BOOLEAN
  /\ voiceStyleRef \in Styles
  /\ lastProcessedIdRef \in Ids \cup {NoId}
  /\ paragraphCountRef \in Nat
  /\ isProcessingRef \in BOOLEAN
  /\ suspended \in Nat
  /\ Len(inflight) <= MaxInflight
  /\ published \in 0..MaxPublish


(***************************************************************************)
(* Properties.                                                             *)
(***************************************************************************)
Raw(sends) == [i \in 1..Len(sends) |-> sends[i].raw]

IsPrefix(p, q) == Len(p) <= Len(q) /\ SubSeq(q, 1, Len(p)) = p

\* The watcher delivered a row to processNewData in the step.
Delivered(o) == o.name \in {"push", "poll"} /\ o.data # NoRow

\* A client.send call returned in the step.
Dispatched == Len(sent') = Len(sent) + 1

\* C1: single-consumer invariant.  Between tasks every active instance of
\* processQueueLoop is suspended in its inter-segment delay; at most one
\* instance is active, whatever enqueues, delay expiries, disconnects,
\* reconnects and effect runs have happened.
C1_SingleConsumer == suspended <= 1

\* C2: FIFO, no loss, no duplication: the segments dispatched so far followed
\* by the pending queue are exactly the items ever enqueued, in enqueue order.
C2_FifoNoLossNoDup == Raw(sent) \o queueRef = Texts(enq)

\* C2 witness: two records were ingested, the first record's segment has been
\* dispatched and segments of the second are dispatched or pending behind it.
C2_Witness ==
  /\ Len(log) = 2
  /\ Transcripts[log[1]].id # Transcripts[log[2]].id
  /\ Len(sent) >= 2
  /\ Len(queueRef) >= 1

\* C3: a delivery of a record whose id equals ProcessedRecordId is a no-op:
\* the queue, the Transcript Log and ProcessedRecordId are unchanged and no
\* drain is started.
C3_DuplicateNoOp ==
  [][(Delivered(op') /\ Transcripts[op'.data].id = lastProcessedIdRef)
       => UNCHANGED <<queueRef, log, lastProcessedIdRef, paragraphCountRef, enq,
                      isProcessingRef, suspended, sent>>]_vars

\* C3 witness: the poll channel reported the record the push channel had
\* already delivered, and it was ignored with the record logged once.
C3_Witness ==
  /\ op.name = "poll"
  /\ op.outcome = "duplicate"
  /\ Len(log) = 1
  /\ Transcripts[log[1]].id = Transcripts[op.data].id

\* C4: gate safety: every client.send happens in a task in which
\* client.status is 'connected'.
C4_GateSafety == [][Dispatched => status = "connected" /\ status' = "connected"]_vars

\* C4 witness: a drain that had dispatched a segment found the gate closed at
\* its next iteration and stopped with segments still pending.
C4_Witness ==
  /\ op.name = "wake"
  /\ op.exit = "gate"
  /\ status = "disconnected"
  /\ Len(sent) >= 1
  /\ Len(queueRef) >= 1


\* C5 as stated: disconnect, reconnect and effect teardown/re-run leave the
\* pending queue, ProcessedRecordId and the paragraph counter unchanged, and
\* a drain that halts on a closed gate removes nothing from the queue.
C5_FlickerLeavesQueue ==
  [][/\ (status' # status \/ connected' # connected)
          => UNCHANGED <<queueRef, lastProcessedIdRef, paragraphCountRef>>
     /\ op'.exit = "gate"
          => /\ IsPrefix(queueRef, queueRef')
             /\ Len(queueRef') = Len(enq') - Len(sent')]_vars

\* C5 amended: disconnect, reconnect and effect teardown/re-run leave
\* ProcessedRecordId and the paragraph counter unchanged and never drop or
\* reorder a pending segment: the queue is unchanged, except that the effect
\* run on reconnect dispatches the head of a non-empty queue and removes it;
\* a drain that halts on a closed gate dispatches and removes nothing, so the
\* queue length after the halt is the number of segments not yet dispatched.
C5_FlickerDropsNothing ==
  [][/\ (status' # status \/ connected' # connected)
          => /\ UNCHANGED <<lastProcessedIdRef, paragraphCountRef, enq>>
             /\ \/ UNCHANGED <<queueRef, sent>>
                \/ /\ ~connected /\ connected'
                   /\ queueRef # <<>>
                   /\ queueRef' = Tail(queueRef)
                   /\ Raw(sent') = Append(Raw(sent), Head(queueRef))
     /\ op'.exit = "gate"
          => /\ IsPrefix(queueRef, queueRef')
             /\ sent' = sent
             /\ Len(queueRef') = Len(enq') - Len(sent')]_vars

\* C5 witness: after a disconnect/reconnect cycle the effect run resumed the
\* drain from the preserved queue, with segments still pending behind the
\* one it dispatched.
C5_Witness ==
  /\ op.name = "effect"
  /\ op.exit = "await"
  /\ Len(queueRef) >= 1

RECURSIVE Cadence(_, _)
Cadence(k, n) ==
  IF k > n THEN <<>>
  ELSE <<FALSE>> \o (IF k % 3 = 0 THEN <<TRUE>> ELSE <<>>) \o Cadence(k + 1, n)

\* C7: marker cadence: among all items ever enqueued, an injected
\* '(clears throat)' stands immediately after the 3rd, 6th, 9th, ...
\* non-marker segment, counted across all ingested records, and nowhere else.
C7_MarkerCadence ==
  /\ [i \in 1..Len(enq) |-> enq[i].marker]
       = Cadence(1, Len(SelectSeq(enq, LAMBDA item : ~item.marker)))
  /\ \A i \in 1..Len(enq) : enq[i].marker => enq[i].text = MARKER

\* C7 witness: the third non-marker segment came from a later record than
\* the first, the marker follows it, and a further segment follows the marker.
C7_Witness ==
  /\ Len(log) >= 2
  /\ Len(enq) >= 5
  /\ enq[4].marker
  /\ ~enq[5].marker

\* The wrap of a segment under a style, as the claim states it.
StyleWrap(style, text, isMarker) ==
  IF isMarker THEN text
  ELSE IF style = "breathy" THEN BREATHY_PREFIX \o text \o BREATHY_SUFFIX
  ELSE IF style = "dramatic" THEN DRAMATIC_PREFIX \o text \o DRAMATIC_SUFFIX
  ELSE text

\* C8: late-bound style wrapping: the text of every dispatch is the wrap of
\* the dispatched segment under the style selected at that moment; injected
\* marker segments are sent unwrapped, every other segment is wrapped.
C8_LateBoundWrap ==
  [][Dispatched =>
       LET i == Len(sent')
       IN /\ sent'[i].raw = enq'[i].text
          /\ sent'[i].text = StyleWrap(voiceStyleRef, enq'[i].text, enq'[i].marker)]_vars

\* C9: a record whose text is null or the empty string is rejected: the
\* queue, the Transcript Log and ProcessedRecordId are unchanged and no drain
\* is started; a record with non-empty text and an id other than
\* ProcessedRecordId is logged.
C9_RejectEmpty ==
  [][Delivered(op') =>
       LET data == Transcripts[op'.data]
       IN IF data.full_transcript_text \in {Null, Str(<<>>)}
          THEN UNCHANGED <<queueRef, log, lastProcessedIdRef, paragraphCountRef, enq,
                           isProcessingRef, suspended, sent>>
          ELSE data.id # lastProcessedIdRef
                 => /\ lastProcessedIdRef' = data.id
                    /\ log' = Append(log, op'.data)]_vars

\* C9 witness: a record with an empty text was delivered and rejected while
\* no record with its id had been processed.
C9_Witness ==
  /\ op.outcome = "rejected"
  /\ Transcripts[op.data].full_transcript_text = Str(<<>>)
  /\ lastProcessedIdRef # Transcripts[op.data].id

\* C10: when client.send throws in the drain loop, the loop ends with
\* isProcessingRef false, nothing is dispatched or removed, and the segment
\* whose send failed is still at the head of the queue for a later trigger.
C10_ThrowHandling ==
  [][op'.exit = "throw" =>
       /\ isProcessingRef' = FALSE
       /\ sent' = sent
       /\ IsPrefix(queueRef, queueRef')
       /\ queueRef' # <<>>
       /\ Raw(sent') \o queueRef' = Texts(enq')]_vars

\* C10 witness: a send threw in a drain that had already dispatched a segment.
C10_Witness ==
  /\ op.name = "wake"
  /\ op.exit = "throw"
  /\ Len(sent) >= 1
  /\ ~isProcessingRef

\* A string without its whitespace.
Squeeze(str) == SelectSeq(str, LAMBDA c : ~IsSpace(c))

\* The concatenation of a sequence of strings.
RECURSIVE Flatten(_)
Flatten(strs) == IF strs = <<>> THEN <<>> ELSE Head(strs) \o Flatten(Tail(strs))

RECURSIVE Sum(_)
Sum(ns) == IF ns = <<>> THEN 0 ELSE Head(ns) + Sum(Tail(ns))

\* C11: segmentation is lossless and order-preserving: the segments
\* returned, concatenated and with whitespace ignored, are the text with its
\* whitespace removed; no segment is empty or whitespace-only; an empty or
\* whitespace-only text yields no segment.
C11_Lossless ==
  segPc = "done" =>
    /\ Squeeze(Flatten(chunks)) = Squeeze(segText)
    /\ \A i \in 1..Len(chunks) : Trim(chunks[i]) # <<>>
    /\ Trim(segText) = <<>> => chunks = <<>>

\* A call of the sentence-grouping segmentText.
SentenceMode == splitBy \in {"segmenter", "regex"}

\* C12: sentence mode chunk size: every chunk emitted holds at least 1 and at
\* most 3 sentences, the open chunk never holds 3 when the next sentence is
\* taken, and the sentences left in the open chunk at the end of input are
\* emitted as a last chunk: every non-blank sentence is in a chunk.
C12_ChunkSize ==
  SentenceMode =>
    /\ \A i \in 1..Len(chunkSizes) : chunkSizes[i] \in 1..3
    /\ sentenceCount \in 0..2
    /\ Len(chunks) = Len(chunkSizes)
    /\ segPc = "done" =>
         /\ Sum(chunkSizes)
              = Len(SelectSeq(sentences, LAMBDA sentence : Trim(sentence) # <<>>))
         /\ Squeeze(Flatten(chunks)) = Squeeze(Flatten(sentences))

\* C12 witness: four sentences were grouped into a chunk of three and a last
\* chunk holding the one left at the end of input.
C12_Witness ==
  /\ SentenceMode
  /\ segPc = "done"
  /\ chunkSizes = <<3, 1>>

\* The loop takes a non-blank sentence in the step.
TakesSentence ==
  /\ segPc = "loop"
  /\ sentenceIndex' = sentenceIndex + 1
  /\ Trim(sentences[sentenceIndex]) # <<>>

\* The length of the open chunk once the sentence taken is appended to it.
AppendedLength ==
  Len(currentChunk) + (IF currentChunk # <<>> THEN 1 ELSE 0)
    + Len(Trim(sentences[sentenceIndex]))

\* The step closes the chunk: it is emitted and a new one is started.
ClosesChunk ==
  /\ Len(chunks') = Len(chunks) + 1
  /\ currentChunk' = <<>>
  /\ sentenceCount' = 0

\* C13 as stated: after appending a sentence the chunk is closed as soon as
\* it has >= 2 sentences and >= 150 characters, or >= 3 sentences, or more
\* than 250 characters; so a chunk of exactly 2 sentences and exactly 150
\* characters is closed.
C13_FlushAtLeast150 ==
  [][TakesSentence =>
       LET n == sentenceCount + 1
       IN ((n >= 2 /\ AppendedLength >= 150) \/ n >= 3 \/ AppendedLength > 250)
            => ClosesChunk]_vars

\* C13 amended: after appending a sentence the chunk is closed exactly when
\* it has >= 2 sentences and more than 150 characters, or >= 3 sentences, or
\* more than 250 characters; a chunk of exactly 2 sentences and exactly 150
\* characters stays open and takes the next sentence.
C13_FlushThresholds ==
  [][TakesSentence =>
       LET n == sentenceCount + 1
       IN IF (n >= 2 /\ AppendedLength > 150) \/ n >= 3 \/ AppendedLength > 250
          THEN ClosesChunk
          ELSE /\ chunks' = chunks
               /\ sentenceCount' = n
               /\ Len(currentChunk') = AppendedLength]_vars

\* C13 witness: the open chunk holds exactly 2 sentences and exactly 150
\* characters.
C13_Witness ==
  /\ SentenceMode
  /\ sentenceCount = 2
  /\ Len(currentChunk) = 150

\* The buffer base of a style in the loop that computes the delay.
BufferBase(variant, style) ==
  IF variant = "sentences" THEN SentenceBufferBase(style)
  ELSE ParagraphBufferBase(style)

\* C14: bounded inter-segment delay: the delay after a marker segment is a
\* fixed short constant whatever the style; the delay after any other
\* segment has a read-time part, computed from the word count of the
\* pre-wrap text, that is at most the cap, so the total is at most the cap
\* plus the style's buffer base plus the maximum jitter, however many words
\* the segment has.
C14_BoundedDelay ==
  pacePc = "wait" =>
    IF paceVariant = "paragraphs" /\ paceText = MARKER
    THEN totalDelay = MarkerDelayMs
    ELSE /\ wordCount = WordCount(paceText)
         /\ totalDelay - BufferBase(paceVariant, paceStyle) - paceRandom <= CapMs
         /\ totalDelay <= CapMs + BufferBase(paceVariant, paceStyle) + MaxJitterMs

\* C15: pacing.  Segments are dispatched one at a time, and a segment is
\* dispatched only when the delay started after the previous dispatch has
\* elapsed: either no delay is pending, or the only pending delay is the one
\* whose expiry makes this dispatch.  No enqueue, disconnect or reconnect
\* makes a dispatch while a delay is still pending.
C15_Pacing ==
  [][/\ Len(sent') <= Len(sent) + 1
     /\ Dispatched => \/ suspended = 0
                      \/ suspended = 1 /\ op'.name = "wake"]_vars

\* C16: at-most-once ingestion per record: whatever the interleaving of
\* change notifications and query responses, no record id is logged (and its
\* segments enqueued) twice.
C16_AtMostOnce ==
  \A i, j \in 1..Len(log) :
    i < j => Transcripts[log[i]].id # Transcripts[log[j]].id

\* Every segment enqueued has been dispatched and no loop instance is left:
\* the queue is empty, isProcessingRef is false, no delay is pending.
Drained ==
  /\ queueRef = <<>>
  /\ ~isProcessingRef
  /\ suspended = 0
  /\ Raw(sent) = Texts(enq)

\* C17: drain termination: if the session stays connected (and no send
\* throws; the records are finitely many), the drain loop eventually
\* dispatches every enqueued segment and exits with the queue empty and
\* isProcessingRef false, for good.
C17_DrainTerminates ==
  <>[](status = "connected") => <>[]Drained

\* C17 witness: a loop that dispatched a two-segment record one segment per
\* delay found the queue empty at its next wake and exited.
C17_Witness ==
  /\ op.name = "wake"
  /\ op.exit = "empty"
  /\ Drained
  /\ Len(sent) >= 2
  /\ status = "connected"

\* C18: the draining flag tracks loop activity: between tasks
\* isProcessingRef is true exactly when a processQueueLoop instance is
\* active, that is suspended in its delay; it is not left true once the loop
\* has exited and is not false while a loop is suspended.
C18_FlagTracksLoop == isProcessingRef <=> suspended > 0

\* C19: watcher stop is effective: while the session is disconnected and the
\* effect's cleanup has removed the subscription and terminated the worker,
\* no task ingests a record: lastProcessedIdRef, the Transcript Log and the
\* items enqueued do not change, also when a fetchLatest query was in flight
\* at the cleanup.
C19_StoppedWatcherIngestsNothing ==
  [][(/\ ~connected /\ ~connected'
      /\ status = "disconnected" /\ status' = "disconnected")
       => UNCHANGED <<lastProcessedIdRef, log, enq>>]_vars

\* C20: log and speech stay in sync: every task that sets
\* lastProcessedIdRef or appends to the Transcript Log also enqueues at least
\* one segment; a record whose text yields no segment (whitespace-only text)
\* is not logged and does not take the dedup id.
C20_LogAndSpeechInSync ==
  [][(lastProcessedIdRef' # lastProcessedIdRef \/ Len(log') > Len(log))
       => Len(enq') > Len(enq)]_vars

\* C21: marker identity: a queue item is sent unwrapped, as a marker, only
\* if the every-3rd-paragraph counter injected it; every segment that came
\* from source text is sent wrapped under the current style, whatever its
\* text is.
C21_MarkerIdentity ==
  [][Dispatched =>
       LET i == Len(sent')
       IN ~enq'[i].marker
            => sent'[i].text = StyleWrap(voiceStyleRef, sent'[i].raw, FALSE)]_vars

====
